---- MODULE Spec2Model ----
(***************************************************************************)
(* A model of vocabvault.py: the item store (VocabVault.data and its JSON  *)
(* file), the selection of a working set (start_practice, start_matching), *)
(* the flashcard drill (FlashcardDialog) and the matching drill            *)
(* (MatchingDialog), including the nested event processing of             *)
(* validate_match (QApplication.processEvents) and its delayed reset       *)
(* callback (QTimer.singleShot).                                           *)
(*                                                                         *)
(* An item of the store is a Python dict; a drill holds references to the  *)
(* dicts of one category.  A reference is modelled by the item's position  *)
(* in data[drill_cat]: the main window is blocked while a dialog runs      *)
(* (QDialog.exec), so positions do not move during a drill.                *)
(***************************************************************************)
EXTENDS Integers, Sequences, FiniteSets, TLC

\* ------------------------------------------------------------ bounds
\* add_entry is tried while the whole collection holds fewer items than this
\* (the files a session starts from hold up to two).
MaxItems == 1
\* The same in the specification of the main window (its files hold up to
\* three items).
StoreItems == 2
\* Drills started in one session of the main window.
MaxDrills == 1
\* Wrong pairings judged in one session of the main window.
MaxMistakes == 1
\* Wrong pairings judged in a drill of the matching specification; as many
\* validate_match frames can be suspended, or callbacks pending, at once.
DrillMistakes == 1
\* Largest value of card_count_spin tried (the spin box allows 1..100).
MaxCount == 3
\* Largest value of match_count_spin tried (the spin box allows 1..10).
MaxRounds == 1
\* Sequences up to this length are shuffled into every permutation; longer
\* ones into their rotations and reversed rotations only.
FullShuffleMax == 4
\* Items of the category a drill specification starts from.
DrillItems == 2
\* Items of the small categories the selection specification starts from.
SelectItems == 3

\* Largest value of match_count_spin tried in the specification of the rounds.
DrillRounds == 2
\* In the specification of the rounds the user clicks one of the first
\* ClickReach buttons of a column that are still enabled.
ClickReach == 1

\* Wrong pairings judged in a drill of the specification of low scores.
FloorMistakes == 2

\* In the specification of the cursors the user clicks the first enabled
\* button of a column while more than CursorTail pairs of the round remain, then
\* one of the first CursorReach enabled buttons.
CursorTail == 2
CursorReach == 2

\* ------------------------------------------------- program constants
MAX_SCORE == 10
round_size == 10
ROUND_ITEMS == 10

Categories == <<"all words", "all phrases", "all sentences">>
CategorySet == {Categories[i] : i \in 1..Len(Categories)}

\* ------------------------------------------------------------- state
VARIABLES
    data,             \* VocabVault.data: category -> list of item dicts
    file,             \* the content of russian.json
    writable,         \* open(filename, 'w') and json.dump succeed in this session
    msg,              \* the message box the last handler showed ("none": none)
    dialog,           \* the modal dialog running: "none", "flashcard", "matching",
                      \* "closing" (a matching dialog closed below suspended frames);
                      \* "starting" before VocabVault.__init__ has run, "crashed"
                      \* after an exception escaped from it
    result,           \* how the last dialog ended: "none", "accepted", "rejected"
    drill_cat,        \* current_category of the running start_practice/start_matching
    items,            \* FlashcardDialog.items / MatchingDialog.all_items (references)
    current_index,    \* FlashcardDialog.current_index
    revealed,         \* btn_next shown, btn_know and btn_dont_know hidden
    judged,           \* history: the cards judged in this drill, in order
    current_round,    \* MatchingDialog.current_round
    selected_russian, \* the selected column A button (0: None)
    selected_english, \* the selected column B button (0: None)
    remaining_pairs,  \* MatchingDialog.remaining_pairs
    enabled,          \* enabled[type][p]: isEnabled of the button of all_items[p]
    style,            \* style[type][p]: the style sheet state of that button
    action_btn,       \* action_btn is shown
    timers,           \* pending singleShot callbacks, oldest first; each carries
                      \* (history) the wrong pairing that scheduled it
    pe_stack,         \* validate_match frames suspended in processEvents,
                      \* innermost last; each carries (history) what it saw
    drills,           \* model budget: drills that may still be started
    mistakes,         \* model budget: wrong pairings that may still be judged
    capacity          \* model bound: add_entry is tried while the collection
                      \* holds fewer items than this

store_vars == <<data, file, writable, msg>>
flash_vars == <<current_index, revealed, judged>>
match_vars == <<current_round, selected_russian, selected_english, remaining_pairs,
                enabled, style, action_btn, timers, pe_stack>>
vars == <<data, file, writable, msg, dialog, result, drill_cat, items, current_index, revealed,
          judged, current_round, selected_russian, selected_english, remaining_pairs,
          enabled, style, action_btn, timers, pe_stack, drills, mistakes, capacity>>

\* ----------------------------------------------------------- helpers
Min(a, b) == IF a <= b THEN a ELSE b

Range(s) == {s[i] : i \in 1..Len(s)}

\* Text is a sequence of one-character strings (TLC's strings are atomic).
IsSpace(c) == c = " "

RECURSIVE lstrip(_)
lstrip(s) == IF s = <<>> THEN s
             ELSE IF IsSpace(Head(s)) THEN lstrip(Tail(s)) ELSE s

RECURSIVE rstrip(_)
rstrip(s) == IF s = <<>> THEN s
             ELSE IF IsSpace(s[Len(s)]) THEN rstrip(SubSeq(s, 1, Len(s) - 1)) ELSE s

\* Mutant of strip: trailing whitespace is kept.
strip_leading(s) == lstrip(s)

\* str.strip()
strip(s) == rstrip(lstrip(s))

\* What the user may have typed into russian_input and english_input.
RussianInputs == {<<>>, <<" ">>, <<"a">>, <<" ", "b", " ">>}
EnglishInputs == {<<>>, <<" ", " ">>, <<"x", " ">>}

\* item.get('score', 0)
ScoreOf(item) == IF "score" \in DOMAIN item THEN item.score ELSE 0

\* ------------------------------------------------------- persistence
default_data == [c \in CategorySet |-> <<>>]

\* Backfill of load_data: an item without a score gets score 0.
Backfill(item) == IF "score" \in DOMAIN item THEN item
                  ELSE [russian |-> item.russian, english |-> item.english, score |-> 0]

\* load_data on a file of the given content.
load_data(f) ==
    IF f.kind = "missing" THEN default_data
    ELSE IF f.kind \in {"blank", "braces"} THEN default_data
    ELSE IF f.kind = "garbage" THEN default_data
    ELSE [c \in (DOMAIN f.doc) \cup CategorySet |->
            IF c \in DOMAIN f.doc
            THEN IF c \in CategorySet
                 THEN [i \in 1..Len(f.doc[c]) |-> Backfill(f.doc[c][i])]
                 ELSE f.doc[c]
            ELSE <<>>]

\* load_data lets an exception escape: it catches json.JSONDecodeError only.
\* json.loads of valid JSON that is no object gives a list or a scalar, on
\* which data[cat] = [] raises TypeError; on an object whose category value is
\* no list of objects the backfill loop raises TypeError.
load_raises(f) == f.kind \in {"array", "scalar", "object of scalars"}

\* json.dump of the collection.
Dump(d) == [kind |-> "object", doc |-> d]

\* save_data, when the write succeeds.
save_data(d) == Dump(d)

\* --------------------------------------------------------- selection
\* The permutations random.shuffle may leave a list of n elements in.
Rotations(n) == {[i \in 1..n |-> ((i - 1 + k) % n) + 1] : k \in 0..(n - 1)}

Shuffles(n) ==
    IF n <= FullShuffleMax
    THEN Permutations(1..n)
    ELSE Rotations(n) \cup {[i \in 1..n |-> p[n + 1 - i]] : p \in Rotations(n)}

\* Mutant of InsertSorted: an unstable sort, which puts a position before the
\* positions of equal score already placed.
RECURSIVE InsertSortedUnstable(_, _, _)
InsertSortedUnstable(cat_items, sorted, i) ==
    IF sorted = <<>> THEN <<i>>
    ELSE IF ScoreOf(cat_items[Head(sorted)]) < ScoreOf(cat_items[i])
         THEN <<Head(sorted)>> \o InsertSortedUnstable(cat_items, Tail(sorted), i)
         ELSE <<i>> \o sorted

\* sorted(items, key=score): positions of the category, ascending score, stable.
\* Insert puts position i behind every position already placed whose score is
\* not larger.
RECURSIVE InsertSorted(_, _, _)
InsertSorted(cat_items, sorted, i) ==
    IF sorted = <<>> THEN <<i>>
    ELSE IF ScoreOf(cat_items[Head(sorted)]) <= ScoreOf(cat_items[i])
         THEN <<Head(sorted)>> \o InsertSorted(cat_items, Tail(sorted), i)
         ELSE <<i>> \o sorted

RECURSIVE SortPrefix(_, _)
SortPrefix(cat_items, n) ==
    IF n = 0 THEN <<>>
    ELSE InsertSorted(cat_items, SortPrefix(cat_items, n - 1), n)

sorted_items(cat_items) == SortPrefix(cat_items, Len(cat_items))

\* Mutant of Slice: the slice is one element too long.
SliceOneMore(lst, count) == SubSeq(lst, 1, Min(count + 1, Len(lst)))

\* lst[:count]
Slice(lst, count) == SubSeq(lst, 1, Min(count, Len(lst)))

\* The working sets the weak branch can produce: the slice, shuffled.
WeakSelections(cat_items, count) ==
    LET sel == Slice(sorted_items(cat_items), count)
    IN {[i \in 1..Len(sel) |-> sel[p[i]]] : p \in Shuffles(Len(sel))}

\* random.sample(items, k): k distinct positions in random order.
random_sample(cat_items, k) ==
    {[i \in 1..k |-> p[i]] : p \in Shuffles(Len(cat_items))}

\* The working sets start_practice can hand to FlashcardDialog.
PracticeSelections(cat_items, mode, count) ==
    IF mode = "weak" THEN WeakSelections(cat_items, count)
    ELSE random_sample(cat_items, Min(count, Len(cat_items)))

\* The working sets start_matching can hand to MatchingDialog.
MatchingSelections(cat_items, mode, rounds) ==
    LET count == Min(rounds * ROUND_ITEMS, Len(cat_items))
    IN IF mode = "weak" THEN WeakSelections(cat_items, count)
       ELSE random_sample(cat_items, count)


\* ------------------------------------------------------ dialog state
\* [type |-> n values v]: one value per button of a working set of n items.
Buttons(n, v) == [russian |-> [p \in 1..n |-> v], english |-> [p \in 1..n |-> v]]

\* The dialog fields while no dialog runs.
NoDialog ==
    /\ items' = <<>>
    /\ drill_cat' = Categories[1]
    /\ current_index' = 0
    /\ revealed' = FALSE
    /\ judged' = <<>>
    /\ current_round' = 0
    /\ selected_russian' = 0
    /\ selected_english' = 0
    /\ remaining_pairs' = 0
    /\ enabled' = Buttons(0, FALSE)
    /\ style' = Buttons(0, "neutral")
    /\ action_btn' = FALSE
    /\ timers' = <<>>
    /\ pe_stack' = <<>>

\* The item a reference of the working set points to.
ItemAt(p) == data[drill_cat][items[p]]

\* Mutant of SetScore: the score is written to the item of that index in
\* every category that has one.
SetScoreInAll(d, cat, i, v) ==
    [c \in DOMAIN d |->
       IF i \in 1..Len(d[c]) THEN [d[c] EXCEPT ![i].score = v] ELSE d[c]]

\* item['score'] = v on the item that working-set position p refers to.
SetScore(d, cat, i, v) ==
    [d EXCEPT ![cat][i] = [russian |-> @.russian, english |-> @.english, score |-> v]]

\* ------------------------------------------------------- score model
\* Mutant of ScoreCorrect: the cap is forgotten.
ScoreCorrectNoCap(score) == score + 1

\* mark_known and the match branch of validate_match: add 1, capped.
ScoreCorrect(score) == Min(score + 1, MAX_SCORE)

\* Mutant of ScoreIncorrect: the score is floored at 0.
ScoreIncorrectFloored(score) == IF score - 1 < 0 THEN 0 ELSE score - 1

\* mark_unknown and the mismatch branch of validate_match: subtract 1, no floor.
ScoreIncorrect(score) == score - 1

\* --------------------------------------------------------- the store
TotalItems(d) ==
    LET RECURSIVE Sum(_)
        Sum(i) == IF i = 0 THEN 0 ELSE Len(d[Categories[i]]) + Sum(i - 1)
    IN Sum(Len(Categories))

\* Mutant of SaveData: the except branch swallows the failure, no box is shown.
SaveDataSilent(d) ==
    /\ file' = IF writable THEN save_data(d) ELSE file
    /\ msg' = "none"
    /\ writable' = writable
    /\ capacity' = capacity

\* save_data() as the last state change of a handler that showed no other box:
\* the file is written, or open or json.dump raised and the except branch
\* showed the error box.
SaveData(d) ==
    /\ file' = IF writable THEN save_data(d) ELSE file
    /\ msg' = IF writable THEN "none" ELSE "Error"
    /\ writable' = writable
    /\ capacity' = capacity

\* add_entry with the two input fields holding russian_raw and english_raw and
\* the tab of category cat selected.
add_entry(cat, russian_raw, english_raw) ==
    LET russian_text == strip(russian_raw)
        english_text == strip(english_raw)
        new_entry == [russian |-> russian_text, english |-> english_text, score |-> 0]
    IN /\ dialog = "none"
       /\ IF russian_text = <<>> \/ english_text = <<>>
          THEN /\ msg' = "Missing Info"
               /\ UNCHANGED <<data, file, writable, capacity>>
          ELSE /\ TotalItems(data) < capacity
               /\ data' = [data EXCEPT ![cat] = Append(@, new_entry)]
               /\ SaveData(data')
       /\ UNCHANGED <<dialog, result, drill_cat, items, flash_vars, match_vars, drills, mistakes>>

\* list.pop(row_index)
Pop(lst, row_index) ==
    [i \in 1..(Len(lst) - 1) |-> IF i <= row_index THEN lst[i] ELSE lst[i + 1]]

\* delete_entry(category, row_index); row_index counts from 0.
delete_entry(cat, row_index) ==
    /\ dialog = "none"
    /\ IF 0 <= row_index /\ row_index < Len(data[cat])
       THEN /\ data' = [data EXCEPT ![cat] = Pop(@, row_index)]
            /\ SaveData(data')
       ELSE /\ msg' = "none"
            /\ UNCHANGED <<data, file, writable, capacity>>
    /\ UNCHANGED <<dialog, result, drill_cat, items, flash_vars, match_vars, drills, mistakes>>

\* Mutant of AfterExec: the collection is not saved when the dialog is gone.
AfterExecNoSave(res, d) ==
    /\ dialog' = "none"
    /\ result' = res
    /\ msg' = "none"
    /\ UNCHANGED <<file, writable, capacity>>
    /\ NoDialog

\* What follows dialog.exec() in start_practice and start_matching: the dialog
\* is gone, the collection is saved.
AfterExec(res, d) ==
    /\ dialog' = "none"
    /\ result' = res
    /\ SaveData(d)
    /\ NoDialog

\* --------------------------------------------------- flashcard drill
\* Mutant of no_items: the handler saves the collection before it returns.
no_items_saves ==
    /\ msg' = "No Items"
    /\ file' = save_data(data)
    /\ UNCHANGED <<data, writable, capacity, dialog, result, drill_cat, items, flash_vars,
                   match_vars, drills, mistakes>>

\* if not items: the "No Items" box, return (start_practice, start_matching).
no_items ==
    /\ msg' = "No Items"
    /\ UNCHANGED <<data, file, writable, capacity, dialog, result, drill_cat, items, flash_vars,
                   match_vars, drills, mistakes>>

\* start_practice(mode) with the tab of category cat selected and
\* card_count_spin at count.
start_practice(cat, mode, count) ==
    /\ dialog = "none"
    /\ IF data[cat] = <<>>
       THEN no_items
       ELSE /\ drills > 0
            /\ \E selected_items \in PracticeSelections(data[cat], mode, count) :
                 items' = selected_items
            /\ dialog' = "flashcard"
            /\ drill_cat' = cat
            /\ current_index' = 0
            /\ revealed' = FALSE
            /\ judged' = <<>>
            /\ result' = "none"
            /\ msg' = "none"
            /\ drills' = drills - 1
            /\ UNCHANGED <<data, file, writable, capacity, match_vars, mistakes>>

\* Mutant of JudgeShown: reveal_answer does not hide the judge buttons.
JudgeShownAlways == dialog = "flashcard"

\* The judge buttons are shown (show_card) until reveal_answer hides them.
JudgeShown == dialog = "flashcard" /\ ~revealed

\* Mutant of NextShown: show_card does not hide btn_next.
NextShownAlways == dialog = "flashcard"

\* Mutant of NextShown: reveal_answer does not show btn_next.
NextShownNever == FALSE

\* btn_next is shown by reveal_answer and hidden by show_card.
NextShown == dialog = "flashcard" /\ revealed

\* reveal_answer
reveal_answer ==
    /\ revealed' = TRUE
    /\ judged' = Append(judged, current_index)

mark_known ==
    /\ JudgeShown
    /\ data' = SetScore(data, drill_cat, items[current_index + 1],
                        ScoreCorrect(ScoreOf(ItemAt(current_index + 1))))
    /\ reveal_answer
    /\ UNCHANGED <<file, writable, capacity, msg, dialog, result, drill_cat, items, current_index,
                   match_vars, drills, mistakes>>

mark_unknown ==
    /\ JudgeShown
    /\ data' = SetScore(data, drill_cat, items[current_index + 1],
                        ScoreIncorrect(ScoreOf(ItemAt(current_index + 1))))
    /\ reveal_answer
    /\ UNCHANGED <<file, writable, capacity, msg, dialog, result, drill_cat, items, current_index,
                   match_vars, drills, mistakes>>

\* next_card: the next card, or accept() behind the last one.
next_card ==
    /\ NextShown
    /\ IF current_index < Len(items) - 1
       THEN /\ current_index' = current_index + 1
            /\ revealed' = FALSE
            /\ UNCHANGED <<data, file, writable, capacity, msg, dialog, result, drill_cat, items, judged,
                           match_vars, drills, mistakes>>
       ELSE /\ AfterExec("accepted", data)
            /\ UNCHANGED <<data, drills, mistakes>>

\* The user closes the flashcard dialog (reject).
close_flashcards ==
    /\ dialog = "flashcard"
    /\ AfterExec("rejected", data)
    /\ UNCHANGED <<data, drills, mistakes>>


\* ---------------------------------------------------- matching drill
\* Mutant of total_rounds: a last, partial round is not counted.
total_rounds_floor == Len(items) \div round_size

\* total_rounds of MatchingDialog.__init__
total_rounds == (Len(items) + round_size - 1) \div round_size

\* The working-set positions of all_items[start:end] in round rnd.
RoundPositions(rnd, n) ==
    {p \in 1..n : rnd * round_size < p /\ p <= rnd * round_size + round_size}

\* A button of the grid that takes clicks: one of the current round, enabled.
Clickable(type, p) ==
    /\ p \in RoundPositions(current_round, Len(items))
    /\ enabled[type][p]

\* start_round for round rnd: the action button is hidden, the old buttons
\* leave the grid (they keep what they had), the buttons of the chunk are
\* created neutral and enabled.  The two cursors are not touched.  The place of
\* a button in its column (random.shuffle of english_btns) is read by no handler
\* and is not modelled.
start_round(rnd, n, old_enabled, old_style) ==
    LET chunk == RoundPositions(rnd, n)
    IN /\ action_btn' = FALSE
       /\ enabled' = [t \in {"russian", "english"} |->
                        [p \in 1..n |-> IF p \in chunk THEN TRUE ELSE old_enabled[t][p]]]
       /\ style' = [t \in {"russian", "english"} |->
                        [p \in 1..n |-> IF p \in chunk THEN "neutral" ELSE old_style[t][p]]]
       /\ remaining_pairs' = Cardinality(chunk)

\* start_matching(mode) with the tab of category cat selected and
\* match_count_spin at rounds.
start_matching(cat, mode, rounds) ==
    /\ dialog = "none"
    /\ IF data[cat] = <<>>
       THEN no_items
       ELSE /\ Min(rounds * ROUND_ITEMS, Len(data[cat])) # 0
            /\ drills > 0
            /\ \E selected_items \in MatchingSelections(data[cat], mode, rounds) :
                 /\ items' = selected_items
                 /\ start_round(0, Len(selected_items),
                                Buttons(Len(selected_items), FALSE),
                                Buttons(Len(selected_items), "absent"))
            /\ dialog' = "matching"
            /\ drill_cat' = cat
            /\ current_round' = 0
            /\ selected_russian' = 0
            /\ selected_english' = 0
            /\ result' = "none"
            /\ msg' = "none"
            /\ drills' = drills - 1
            /\ UNCHANGED <<data, file, writable, capacity, flash_vars, timers, pe_stack, mistakes>>

\* is_match = (r_item == e_item): equality of two dicts.
is_match(r_item, e_item) == r_item = e_item

\* Mutant of CursorAfterClick: a click on the selected button leaves it
\* selected.
CursorAfterClickKept(cursor, p) == p

\* The cursor of a column after handle_click on button p of that column
\* (0: the click was on the selected button and deselected it).
CursorAfterClick(cursor, p) == IF cursor = p THEN 0 ELSE p

\* The styles of a column after handle_click on its button p, before any
\* match check: the clicked button, if it was selected, turns neutral; else the
\* old selection turns neutral and the clicked button selected.
StyleAfterClick(col_style, cursor, p) ==
    IF cursor = p THEN [col_style EXCEPT ![p] = "neutral"]
    ELSE [q \in DOMAIN col_style |->
            IF q = p THEN "selected"
            ELSE IF q = cursor THEN "neutral" ELSE col_style[q]]

\* A frame of validate_match suspended in processEvents; r, e, scores and
\* remaining are history (what the frame saw when it was suspended).
Frame(r, e, d, rem) ==
    [r |-> r, e |-> e,
     scores |-> [i \in 1..Len(d[drill_cat]) |-> ScoreOf(d[drill_cat][i])],
     remaining |-> rem]

\* Mutant of validate_match_correct: the score is raised once for each of the
\* two buttons.
validate_match_correct_twice(r, e, st) ==
    /\ style' = [st EXCEPT !.russian[r] = "correct", !.english[e] = "correct"]
    /\ enabled' = [enabled EXCEPT !.russian[r] = FALSE, !.english[e] = FALSE]
    /\ data' = LET d1 == SetScore(data, drill_cat, items[r],
                                  ScoreCorrect(ScoreOf(ItemAt(r))))
               IN SetScore(d1, drill_cat, items[e],
                           ScoreCorrect(ScoreOf(d1[drill_cat][items[e]])))
    /\ selected_russian' = 0
    /\ selected_english' = 0
    /\ remaining_pairs' = remaining_pairs - 1
    /\ action_btn' = IF remaining_pairs - 1 = 0 THEN TRUE ELSE action_btn
    /\ UNCHANGED <<pe_stack, mistakes>>

\* Mutant of round_complete: the round counts as complete one pair early.
round_complete_early(remaining) == remaining <= 1

\* if self.remaining_pairs == 0: self.finish_round()
round_complete(remaining) == remaining = 0

\* validate_match, match branch (lines 270-285), with cursors r and e and the
\* styles st left by handle_click.
validate_match_correct(r, e, st) ==
    /\ style' = [st EXCEPT !.russian[r] = "correct", !.english[e] = "correct"]
    /\ enabled' = [enabled EXCEPT !.russian[r] = FALSE, !.english[e] = FALSE]
    /\ data' = SetScore(data, drill_cat, items[r], ScoreCorrect(ScoreOf(ItemAt(r))))
    /\ selected_russian' = 0
    /\ selected_english' = 0
    /\ remaining_pairs' = remaining_pairs - 1
    /\ action_btn' = IF round_complete(remaining_pairs - 1) THEN TRUE ELSE action_btn
    /\ UNCHANGED <<pe_stack, mistakes>>

\* validate_match, mismatch branch up to QApplication.processEvents() (lines
\* 287-298): the frame is suspended there with both cursors set.
validate_match_wrong(r, e, st) ==
    /\ mistakes > 0
    /\ style' = [st EXCEPT !.russian[r] = "wrong", !.english[e] = "wrong"]
    /\ data' = LET d1 == SetScore(data, drill_cat, items[r],
                                  ScoreIncorrect(ScoreOf(ItemAt(r))))
               IN SetScore(d1, drill_cat, items[e],
                           ScoreIncorrect(ScoreOf(d1[drill_cat][items[e]])))
    /\ selected_russian' = r
    /\ selected_english' = e
    /\ pe_stack' = Append(pe_stack, Frame(r, e, data', remaining_pairs))
    /\ mistakes' = mistakes - 1
    /\ UNCHANGED <<enabled, remaining_pairs, action_btn>>

\* handle_click(btn) for the button of type type made from all_items[p],
\* validate_match included.  It runs from the dialog's event loop or from the
\* processEvents of a suspended validate_match.
handle_click(type, p) ==
    /\ dialog = "matching"
    /\ Clickable(type, p)
    /\ LET r == IF type = "russian" THEN CursorAfterClick(selected_russian, p)
                ELSE selected_russian
           e == IF type = "english" THEN CursorAfterClick(selected_english, p)
                ELSE selected_english
           st == IF type = "russian"
                 THEN [style EXCEPT !.russian = StyleAfterClick(@, selected_russian, p)]
                 ELSE [style EXCEPT !.english = StyleAfterClick(@, selected_english, p)]
           deselect == (type = "russian" /\ selected_russian = p)
                       \/ (type = "english" /\ selected_english = p)
       IN IF deselect \/ r = 0 \/ e = 0
          THEN /\ selected_russian' = r
               /\ selected_english' = e
               /\ style' = st
               /\ UNCHANGED <<data, enabled, remaining_pairs, action_btn, pe_stack,
                              mistakes>>
          ELSE IF is_match(ItemAt(r), ItemAt(e))
               THEN validate_match_correct(r, e, st)
               ELSE validate_match_wrong(r, e, st)
    /\ msg' = msg
    /\ UNCHANGED <<file, writable, capacity, dialog, result, drill_cat, items, flash_vars, current_round,
                   timers, drills>>

\* exec() returns once no handler of the closed dialog is left on the stack.
ExecReturns(stack, res, d) ==
    IF stack = <<>>
    THEN AfterExec(res, d)
    ELSE /\ dialog' = "closing"
         /\ result' = res

\* processEvents returns in the innermost suspended validate_match, which runs
\* lines 300-306: self.selected_russian.setChecked, self.selected_english
\* .setChecked (each raises AttributeError on None and ends the handler),
\* QTimer.singleShot, both cursors None.  isChecked is read nowhere and is not
\* modelled.
resume_validate_match ==
    /\ dialog \in {"matching", "closing"}
    /\ pe_stack # <<>>
    /\ LET frame == pe_stack[Len(pe_stack)]
           rest == SubSeq(pe_stack, 1, Len(pe_stack) - 1)
           raised == selected_russian = 0 \/ selected_english = 0
           sr == IF raised THEN selected_russian ELSE 0
           se == IF raised THEN selected_english ELSE 0
           tm == IF raised THEN timers
                 ELSE Append(timers, [r |-> frame.r, e |-> frame.e])
       IN IF dialog = "closing" /\ rest = <<>>
          THEN /\ AfterExec(result, data)
               /\ UNCHANGED <<data, drills, mistakes>>
          ELSE /\ selected_russian' = sr
               /\ selected_english' = se
               /\ timers' = tm
               /\ pe_stack' = rest
               /\ UNCHANGED <<data, file, writable, capacity, msg, dialog, result, drill_cat, items,
                              flash_vars, current_round, remaining_pairs, enabled,
                              style, action_btn, drills, mistakes>>

\* reset_wrong_buttons(btn1, btn2)
reset_wrong_buttons(st, btn1, btn2) ==
    LET s1 == IF btn1 # 0 THEN [st EXCEPT !.russian[btn1] = "neutral"] ELSE st
    IN IF btn2 # 0 THEN [s1 EXCEPT !.english[btn2] = "neutral"] ELSE s1

\* The oldest singleShot callback fires: the lambda of line 303 reads
\* self.selected_russian and self.selected_english when it is called.
timer_fires ==
    /\ dialog \in {"matching", "closing"}
    /\ timers # <<>>
    /\ style' = reset_wrong_buttons(style, selected_russian, selected_english)
    /\ timers' = Tail(timers)
    /\ UNCHANGED <<data, file, writable, capacity, msg, dialog, result, drill_cat, items, flash_vars,
                   current_round, selected_russian, selected_english, remaining_pairs,
                   enabled, action_btn, pe_stack, drills, mistakes>>

\* next_round: the click on action_btn.
next_round ==
    /\ dialog = "matching"
    /\ action_btn
    /\ IF current_round < total_rounds - 1
       THEN /\ current_round' = current_round + 1
            /\ start_round(current_round + 1, Len(items), enabled, style)
            /\ UNCHANGED <<data, file, writable, capacity, msg, dialog, result, drill_cat, items, flash_vars,
                           selected_russian, selected_english, timers, pe_stack, drills,
                           mistakes>>
       ELSE /\ ExecReturns(pe_stack, "accepted", data)
            /\ IF pe_stack = <<>> THEN UNCHANGED <<data, drills, mistakes>>
               ELSE UNCHANGED <<data, file, writable, capacity, msg, drill_cat, items, flash_vars,
                                match_vars, drills, mistakes>>

\* The user closes the matching dialog (reject).
close_matching ==
    /\ dialog = "matching"
    /\ ExecReturns(pe_stack, "rejected", data)
    /\ IF pe_stack = <<>> THEN UNCHANGED <<data, drills, mistakes>>
       ELSE UNCHANGED <<data, file, writable, capacity, msg, drill_cat, items, flash_vars, match_vars,
                        drills, mistakes>>

\* ---------------------------------------------------- specifications
Modes == {"random", "weak"}

\* The files the session may start from: none, or a collection a former
\* session saved.
InitItem(russian, score) ==
    [russian |-> <<russian>>, english |-> <<"x">>, score |-> score]

InitFiles ==
    {[kind |-> "missing"],
     Dump([default_data EXCEPT !["all words"] = <<InitItem("a", MAX_SCORE)>>]),
     Dump([default_data EXCEPT !["all words"] =
              <<InitItem("a", MAX_SCORE - 1), InitItem("b", MAX_SCORE)>>])}

\* The state VocabVault.__init__ leaves.
InitMain(f) ==
    /\ file = f
    /\ data = load_data(f)
    /\ msg = "none"
    /\ dialog = "none"
    /\ result = "none"
    /\ drill_cat = Categories[1]
    /\ items = <<>>
    /\ current_index = 0
    /\ revealed = FALSE
    /\ judged = <<>>
    /\ current_round = 0
    /\ selected_russian = 0
    /\ selected_english = 0
    /\ remaining_pairs = 0
    /\ enabled = Buttons(0, FALSE)
    /\ style = Buttons(0, "neutral")
    /\ action_btn = FALSE
    /\ timers = <<>>
    /\ pe_stack = <<>>

Init ==
    /\ \E f \in InitFiles : InitMain(f)
    /\ writable \in BOOLEAN
    /\ capacity = MaxItems
    /\ drills = MaxDrills
    /\ mistakes = MaxMistakes

Next ==
    \/ \E cat \in CategorySet, r \in RussianInputs, e \in EnglishInputs :
         add_entry(cat, r, e)
    \/ \E cat \in CategorySet, row \in -1..MaxItems : delete_entry(cat, row)
    \/ \E cat \in CategorySet, mode \in Modes, count \in 1..MaxCount :
         start_practice(cat, mode, count)
    \/ mark_known
    \/ mark_unknown
    \/ next_card
    \/ close_flashcards
    \/ \E cat \in CategorySet, mode \in Modes, rounds \in 1..MaxRounds :
         start_matching(cat, mode, rounds)
    \/ \E type \in {"russian", "english"}, p \in 1..Len(items) : handle_click(type, p)
    \/ resume_validate_match
    \/ timer_fires
    \/ next_round
    \/ close_matching

Spec == Init /\ [][Next]_vars


\* The specifications below start from a session whose file holds one category
\* to drill, "all words", one item in "all phrases" and none in "all sentences".
Bystander == InitItem("b", MAX_SCORE - 1)

InitCategory(cat_items) ==
    InitMain(Dump([default_data EXCEPT !["all words"] = cat_items,
                                       !["all phrases"] = <<Bystander>>]))

\* The items a drilled category is made of; a category lists them in this
\* order (the selection puts the working set in every order).
DrillValues == <<InitItem("a", MAX_SCORE), InitItem("b", MAX_SCORE - 1)>>

DrillCategories ==
    UNION {{[i \in 1..n |-> DrillValues[f[i]]] :
              f \in {g \in [1..n -> 1..Len(DrillValues)] :
                        \A i \in 1..(n - 1) : g[i] <= g[i + 1]}} :
           n \in 1..DrillItems}

\* One flashcard drill.
InitFlash ==
    /\ \E cat_items \in DrillCategories : InitCategory(cat_items)
    /\ writable \in BOOLEAN
    /\ capacity = MaxItems
    /\ drills = 1
    /\ mistakes = 0

NextFlash ==
    \/ \E cat \in CategorySet, mode \in Modes, count \in 1..MaxCount :
         start_practice(cat, mode, count)
    \/ mark_known
    \/ mark_unknown
    \/ next_card
    \/ close_flashcards

SpecFlash == InitFlash /\ [][NextFlash]_vars

\* One flashcard drill that the user does not abandon: the dialog is not
\* closed, and a judge button or btn_next that stays shown is clicked in the end.
Judge == mark_known \/ mark_unknown

NextFlashFair ==
    \/ \E cat \in CategorySet, mode \in Modes, count \in 1..MaxCount :
         start_practice(cat, mode, count)
    \/ mark_known
    \/ mark_unknown
    \/ next_card

SpecFlashFair ==
    /\ InitFlash
    /\ [][NextFlashFair]_vars
    /\ WF_vars(Judge)
    /\ WF_vars(next_card)

\* One matching drill, in a session that can write its file.
InitMatch ==
    /\ \E cat_items \in DrillCategories : InitCategory(cat_items)
    /\ writable = TRUE
    /\ capacity = MaxItems
    /\ drills = 1
    /\ mistakes = DrillMistakes

NextMatch ==
    \/ \E cat \in CategorySet, mode \in Modes, rounds \in 1..MaxRounds :
         start_matching(cat, mode, rounds)
    \/ \E type \in {"russian", "english"}, p \in 1..Len(items) : handle_click(type, p)
    \/ resume_validate_match
    \/ timer_fires
    \/ next_round
    \/ close_matching

SpecMatch == InitMatch /\ [][NextMatch]_vars

\* The selection of a working set, in a session that can write its file:
\* small categories of every score pattern, and categories of one item more
\* than a round of matching takes, in which at most one item (the k-th) has
\* another score than the rest.
SelectScores == {0, 1, 2}

SmallCategories ==
    UNION {[1..n -> {InitItem("a", sc) : sc \in SelectScores}] : n \in 1..SelectItems}

BigCategories ==
    {[i \in 1..(ROUND_ITEMS + 1) |-> InitItem("a", IF i = k THEN sc ELSE 1)] :
        k \in 0..(ROUND_ITEMS + 1), sc \in SelectScores}

InitSelect ==
    /\ \E cat_items \in SmallCategories \cup BigCategories : InitCategory(cat_items)
    /\ writable = TRUE
    /\ capacity = MaxItems
    /\ drills = 1
    /\ mistakes = 0

NextSelect ==
    \/ \E cat \in CategorySet, mode \in Modes, count \in 1..MaxCount :
         start_practice(cat, mode, count)
    \/ \E cat \in CategorySet, mode \in Modes, rounds \in 1..MaxRounds :
         start_matching(cat, mode, rounds)
    \/ close_flashcards
    \/ close_matching

SpecSelect == InitSelect /\ [][NextSelect]_vars


\* The rounds of a matching drill, in a session that can write its file:
\* categories of items with pairwise different texts, of the sizes below, and
\* a user who makes no wrong pairing and clicks near the top of a column.
RoundsSizes == {1, ROUND_ITEMS, ROUND_ITEMS + 1, ROUND_ITEMS + 5, 2 * ROUND_ITEMS + 1}

RoundsCategories ==
    {[i \in 1..n |-> InitItem(ToString(i), MAX_SCORE - 1)] : n \in RoundsSizes}

\* The buttons of a column the user can click, and those near the top.
EnabledPositions(type) ==
    {p \in RoundPositions(current_round, Len(items)) : enabled[type][p]}

Reachable(type) ==
    LET open == EnabledPositions(type)
    IN {p \in open : Cardinality({q \in open : q < p}) < ClickReach}

InitRounds ==
    /\ \E cat_items \in RoundsCategories : InitCategory(cat_items)
    /\ writable = TRUE
    /\ capacity = MaxItems
    /\ drills = 1
    /\ mistakes = 0

NextRounds ==
    \/ \E cat \in CategorySet, mode \in Modes, rounds \in 1..DrillRounds :
         start_matching(cat, mode, rounds)
    \/ \E type \in {"russian", "english"} : \E p \in Reachable(type) :
         handle_click(type, p)
    \/ next_round
    \/ close_matching

SpecRounds == InitRounds /\ [][NextRounds]_vars

\* Drills on items of low score: the file a former session saved holds, in
\* "all words", an item at one of the scores below and an item at MAX_SCORE.
FloorScores == {1, 0, 1 - MAX_SCORE, -MAX_SCORE}

FloorCategories == {<<InitItem("a", sc), InitItem("b", MAX_SCORE)>> : sc \in FloorScores}

InitFloor ==
    /\ \E cat_items \in FloorCategories : InitCategory(cat_items)
    /\ writable = TRUE
    /\ capacity = MaxItems
    /\ drills = 1
    /\ mistakes = FloorMistakes

NextFloor ==
    \/ \E cat \in CategorySet, mode \in Modes, count \in 1..MaxCount :
         start_practice(cat, mode, count)
    \/ mark_known
    \/ mark_unknown
    \/ next_card
    \/ close_flashcards
    \/ \E cat \in CategorySet, mode \in Modes, rounds \in 1..MaxRounds :
         start_matching(cat, mode, rounds)
    \/ \E type \in {"russian", "english"}, p \in 1..Len(items) : handle_click(type, p)
    \/ resume_validate_match
    \/ timer_fires
    \/ next_round
    \/ close_matching

SpecFloor == InitFloor /\ [][NextFloor]_vars

\* The main window from its construction on: the file VocabVault.__init__
\* finds, add, delete, and drills that are started and closed at once.
StoreFiles ==
    {[kind |-> k] : k \in {"missing", "blank", "braces", "garbage", "array", "scalar",
                           "object of scalars"}}
    \cup {Dump([default_data EXCEPT !["all words"] = <<InitItem("a", MAX_SCORE)>>]),
          Dump([default_data EXCEPT !["all words"] =
                  <<InitItem("a", MAX_SCORE), InitItem("b", 0), InitItem("a", 1)>>]),
          [kind |-> "object",
           doc |-> ("all phrases" :> <<[russian |-> <<"a">>, english |-> <<"x">>]>>)]}

InitStore ==
    /\ file \in StoreFiles
    /\ writable \in BOOLEAN
    /\ data = <<>>
    /\ msg = "none"
    /\ dialog = "starting"
    /\ result = "none"
    /\ drill_cat = Categories[1]
    /\ items = <<>>
    /\ current_index = 0
    /\ revealed = FALSE
    /\ judged = <<>>
    /\ current_round = 0
    /\ selected_russian = 0
    /\ selected_english = 0
    /\ remaining_pairs = 0
    /\ enabled = Buttons(0, FALSE)
    /\ style = Buttons(0, "neutral")
    /\ action_btn = FALSE
    /\ timers = <<>>
    /\ pe_stack = <<>>
    /\ capacity = StoreItems
    /\ drills = 1
    /\ mistakes = 0

\* VocabVault.__init__: self.data = self.load_data(); an exception that escapes
\* load_data ends the program before the window exists.
construct ==
    /\ dialog = "starting"
    /\ IF load_raises(file)
       THEN /\ dialog' = "crashed"
            /\ data' = data
       ELSE /\ dialog' = "none"
            /\ data' = load_data(file)
    /\ UNCHANGED <<file, writable, capacity, msg, result, drill_cat, items, flash_vars, match_vars,
                   drills, mistakes>>

NextStore ==
    \/ construct
    \/ \E cat \in CategorySet, r \in RussianInputs, e \in EnglishInputs :
         add_entry(cat, r, e)
    \/ \E cat \in CategorySet, row \in -1..(StoreItems + 1) : delete_entry(cat, row)
    \/ \E cat \in CategorySet, mode \in Modes, count \in 1..MaxCount :
         start_practice(cat, mode, count)
    \/ close_flashcards
    \/ \E cat \in CategorySet, mode \in Modes, rounds \in 1..MaxRounds :
         start_matching(cat, mode, rounds)
    \/ close_matching

SpecStore == InitStore /\ [][NextStore]_vars

\* The cursors of a matching drill over one or two rounds, in a session that
\* can write its file: categories of items with pairwise different texts, a
\* user who drills the weakest items, pairs the first pairs of a round of ten
\* from the top, then clicks near the top of a column, also while a
\* validate_match is suspended, and may pair wrongly once.
CursorSizes == {2, ROUND_ITEMS + 1, ROUND_ITEMS + 2}

CursorCategories ==
    {[i \in 1..n |-> InitItem(ToString(i), MAX_SCORE - 1)] : n \in CursorSizes}

NearTop(type) ==
    LET open == IF dialog = "matching" THEN EnabledPositions(type) ELSE {}
        reach == IF remaining_pairs > CursorTail THEN 1 ELSE CursorReach
    IN {p \in open : Cardinality({q \in open : q < p}) < reach}

InitCursor ==
    /\ \E cat_items \in CursorCategories : InitCategory(cat_items)
    /\ writable = TRUE
    /\ capacity = MaxItems
    /\ drills = 1
    /\ mistakes = 1

NextCursor ==
    \/ \E cat \in CategorySet, rounds \in 1..DrillRounds :
         start_matching(cat, "weak", rounds)
    \/ \E type \in {"russian", "english"} : \E p \in NearTop(type) :
         handle_click(type, p)
    \/ resume_validate_match
    \/ timer_fires
    \/ next_round
    \/ close_matching

SpecCursor == InitCursor /\ [][NextCursor]_vars

\* One drill of either kind on the categories of the cursor specification:
\* the working set of a flashcard drill and of a matching drill of one round
\* leaves out items of the drilled category.
NextFrame ==
    \/ \E cat \in CategorySet, rounds \in 1..DrillRounds :
         start_matching(cat, "weak", rounds)
    \/ \E type \in {"russian", "english"} : \E p \in NearTop(type) :
         handle_click(type, p)
    \/ resume_validate_match
    \/ timer_fires
    \/ next_round
    \/ close_matching
    \/ \E cat \in CategorySet, mode \in Modes, count \in 1..MaxCount :
         start_practice(cat, mode, count)
    \/ mark_known
    \/ mark_unknown
    \/ next_card
    \/ close_flashcards

SpecFrame == InitCursor /\ [][NextFrame]_vars

\* ------------------------------------------------------------ claims
Types == {"russian", "english"}

\* Between this state and the next, the collection keeps its categories and
\* their lengths, and every item but those at `touched` (positions of
\* category drill_cat) is what it was.
OnlyScoresOf(touched) ==
    /\ DOMAIN data' = DOMAIN data
    /\ \A c \in DOMAIN data :
         /\ Len(data'[c]) = Len(data[c])
         /\ \A i \in 1..Len(data[c]) :
              IF c = drill_cat /\ i \in touched
              THEN /\ data'[c][i].russian = data[c][i].russian
                   /\ data'[c][i].english = data[c][i].english
              ELSE data'[c][i] = data[c][i]

\* The column A button and the column B button that are selected once the
\* click on button p of column type is taken (0: none).
TermAfter(type, p) ==
    IF type = "russian" THEN (IF selected_russian = p THEN 0 ELSE p) ELSE selected_russian

DefinitionAfter(type, p) ==
    IF type = "english" THEN (IF selected_english = p THEN 0 ELSE p) ELSE selected_english

\* The click on button p of column type leaves both cursors non-null.
LeavesBoth(type, p) == TermAfter(type, p) # 0 /\ DefinitionAfter(type, p) # 0

\* C1: every item of every category has score <= MAX_SCORE, in every state a
\* session of add, delete, flashcard judgments and matching pairings reaches
\* from a collection whose scores are <= MAX_SCORE.
C1_ScoreAtMostMax ==
    \A c \in DOMAIN data : \A i \in 1..Len(data[c]) : ScoreOf(data[c][i]) <= MAX_SCORE

\* C1 witness: a card whose item was at MAX_SCORE when the drill started (the
\* file holds the scores of the start) has been judged and is at MAX_SCORE.
C1_Witness ==
    /\ dialog = "flashcard"
    /\ revealed
    /\ file.kind = "object"
    /\ ScoreOf(file.doc[drill_cat][items[current_index + 1]]) = MAX_SCORE
    /\ ScoreOf(ItemAt(current_index + 1)) = MAX_SCORE

\* C2: a click that leaves both cursors non-null on the two buttons of one item
\* sets that item's score to min(score + 1, MAX_SCORE), changes no other item,
\* disables both buttons, clears both cursors and lowers remaining_pairs by 1;
\* and a disabled button of the round stays disabled while the round lasts.
C2_CorrectPairing ==
    [][/\ \A type \in Types : \A p \in 1..Len(items) :
            (/\ LeavesBoth(type, p)
             /\ TermAfter(type, p) = DefinitionAfter(type, p)
             /\ handle_click(type, p))
            => /\ ScoreOf(data'[drill_cat][items[p]]) =
                    (IF ScoreOf(ItemAt(p)) + 1 <= MAX_SCORE
                     THEN ScoreOf(ItemAt(p)) + 1 ELSE MAX_SCORE)
               /\ OnlyScoresOf({items[p]})
               /\ ~enabled'.russian[p]
               /\ ~enabled'.english[p]
               /\ selected_russian' = 0
               /\ selected_english' = 0
               /\ remaining_pairs' = remaining_pairs - 1
       /\ \A type \in Types : \A p \in 1..Len(items) :
            (/\ dialog = "matching"
             /\ dialog' \in {"matching", "closing"}
             /\ current_round' = current_round
             /\ p \in RoundPositions(current_round, Len(items))
             /\ ~enabled[type][p])
            => ~enabled'[type][p]]_vars

\* C2 witness: exactly one pairing of the round was judged correct, the two
\* buttons of one item, and the item went from MAX_SCORE - 1 to MAX_SCORE while
\* another item of the round kept its score.
C2_Witness ==
    /\ dialog = "matching"
    /\ Len(items) >= 2
    /\ remaining_pairs = Len(items) - 1
    /\ file.kind = "object"
    /\ \E p \in 1..Len(items) :
         /\ ~enabled.russian[p]
         /\ ~enabled.english[p]
         /\ ScoreOf(file.doc[drill_cat][items[p]]) = MAX_SCORE - 1
         /\ ScoreOf(ItemAt(p)) = MAX_SCORE
         /\ \A q \in 1..Len(items) : q # p => ItemAt(q) = file.doc[drill_cat][items[q]]

\* C3 (as claimed): a click that leaves both cursors non-null on buttons of two
\* different items lowers the score of each of the two by 1, changes no other
\* item, leaves remaining_pairs and both buttons as they were; and the check
\* ends with both cursors null.
C3_WrongPairing ==
    [][/\ \A type \in Types : \A p \in 1..Len(items) :
            (/\ handle_click(type, p)
             /\ LeavesBoth(type, p)
             /\ TermAfter(type, p) # DefinitionAfter(type, p))
            => LET r == TermAfter(type, p)
                   e == DefinitionAfter(type, p)
               IN /\ ScoreOf(data'[drill_cat][items[r]]) = ScoreOf(ItemAt(r)) - 1
                  /\ ScoreOf(data'[drill_cat][items[e]]) = ScoreOf(ItemAt(e)) - 1
                  /\ OnlyScoresOf({items[r], items[e]})
                  /\ remaining_pairs' = remaining_pairs
                  /\ enabled' = enabled
       /\ resume_validate_match => (selected_russian' = 0 /\ selected_english' = 0)]_vars

\* C4 (as claimed): a click that leaves both cursors non-null is judged a match
\* (the pair is disabled, remaining_pairs drops) exactly when the two buttons
\* were made from the same working-set item.
C4_MatchIffSameItem ==
    [][\A type \in Types : \A p \in 1..Len(items) :
            (handle_click(type, p) /\ LeavesBoth(type, p))
            => ((remaining_pairs' = remaining_pairs - 1)
                <=> (TermAfter(type, p) = DefinitionAfter(type, p)))]_vars


\* A flashcard judgment, and the end of a flashcard drill by accept().
JudgeStep ==
    dialog = "flashcard" /\ dialog' = "flashcard" /\ Len(judged') = Len(judged) + 1

FinishStep == dialog = "flashcard" /\ dialog' = "none" /\ result' = "accepted"

AdvanceStep ==
    dialog = "flashcard" /\ dialog' = "flashcard" /\ current_index' # current_index

\* C5: a flashcard drill over N cards is accepted only after exactly N
\* judgments, one per card in index order; the scores change in judgments only,
\* and a judgment sets the score of the card's item to min(score + 1, MAX_SCORE)
\* or to score - 1 and changes no other item.
C5_FlashcardJudgments ==
    [][/\ FinishStep => judged = [i \in 1..Len(items) |-> i - 1]
       /\ (dialog = "flashcard" /\ data' # data) => JudgeStep
       /\ JudgeStep =>
            LET i == items[current_index + 1]
                sc == ScoreOf(data[drill_cat][i])
            IN /\ judged' = Append(judged, current_index)
               /\ OnlyScoresOf({i})
               /\ ScoreOf(data'[drill_cat][i]) \in
                    {IF sc + 1 <= MAX_SCORE THEN sc + 1 ELSE MAX_SCORE, sc - 1}]_vars

\* C5 witness: a drill over two cards was accepted with both cards judged
\* incorrect (no category starts with an item below MAX_SCORE - 1).
C5_Witness ==
    /\ dialog = "none"
    /\ result = "accepted"
    /\ Len(data["all words"]) = 2
    /\ \A i \in 1..2 : ScoreOf(data["all words"][i]) = MAX_SCORE - 2

\* C6: a judgment is taken only while the card is Hidden and reveals it;
\* advance is taken only while the card is Revealed, moves to the next card
\* Hidden and only past a judged card; accept() is taken only while the last
\* card is Revealed; no card is judged twice.
C6_FlashcardStates ==
    [][/\ JudgeStep => (~revealed /\ revealed' /\ current_index' = current_index)
       /\ AdvanceStep => /\ revealed
                         /\ ~revealed'
                         /\ current_index' = current_index + 1
                         /\ current_index \in Range(judged)
                         /\ judged' = judged
       /\ FinishStep => (revealed /\ current_index = Len(items) - 1)
       /\ (dialog = "flashcard" /\ dialog' = "flashcard" /\ revealed' # revealed)
            => (JudgeStep \/ AdvanceStep)
       /\ \A i, j \in 1..Len(judged') : judged'[i] = judged'[j] => i = j]_vars

\* C6 witness: the first card was judged and advanced past; the second is Hidden.
C6_Witness ==
    /\ dialog = "flashcard"
    /\ current_index = 1
    /\ ~revealed
    /\ judged = <<0>>

\* C7 (as claimed): when the delayed reset callback of a wrong pairing has run,
\* both buttons of that pairing are neutral.
C7_ResetMakesNeutral ==
    [][timer_fires => /\ style'.russian[timers[1].r] = "neutral"
                      /\ style'.english[timers[1].e] = "neutral"]_vars

\* C8 (as claimed): no click is handled while a match check is suspended with
\* both cursors set; a wrong pairing resumes with its own two cursors, the
\* scores and remaining_pairs as it left them, and clears both cursors.
C8_ClicksAreSequential ==
    [][/\ pe_stack # <<>> => ~(\E type \in Types : \E p \in 1..Len(items) :
                                  handle_click(type, p))
       /\ resume_validate_match =>
            LET frame == pe_stack[Len(pe_stack)]
            IN /\ selected_russian = frame.r
               /\ selected_english = frame.e
               /\ frame.scores = [i \in 1..Len(data[drill_cat]) |->
                                    ScoreOf(data[drill_cat][i])]
               /\ remaining_pairs = frame.remaining
               /\ selected_russian' = 0
               /\ selected_english' = 0]_vars

\* The step is made from the main window with the tab of the non-empty
\* category cat selected.
Starts(cat) == dialog = "none" /\ data[cat] # <<>> /\ (dialog' # "none" => drill_cat' = cat)

\* The working set of a drill started on category cat with k items asked for:
\* min(k, size) positions of the category, none twice.
WorkingSetOf(cat, k) ==
    /\ dialog' # "none"
    /\ drill_cat' = cat
    /\ Len(items') = (IF k <= Len(data[cat]) THEN k ELSE Len(data[cat]))
    /\ \A i \in 1..Len(items') : items'[i] \in 1..Len(data[cat])
    /\ \A i, j \in 1..Len(items') : items'[i] = items'[j] => i = j

\* C9: started on a non-empty category of size S, a flashcard drill asked for
\* k cards (either mode) and a matching drill of k = rounds * 10 get a working
\* set of exactly min(k, S) items of that category, none twice.
C9_WorkingSetSize ==
    [][/\ \A cat \in CategorySet : \A mode \in Modes : \A count \in 1..MaxCount :
            (Starts(cat) /\ start_practice(cat, mode, count))
            => WorkingSetOf(cat, count)
       /\ \A cat \in CategorySet : \A mode \in Modes : \A rounds \in 1..MaxRounds :
            (Starts(cat) /\ start_matching(cat, mode, rounds))
            => WorkingSetOf(cat, rounds * 10)]_vars

\* C9 witness: a matching drill of one round on a category of eleven items
\* holds ten of them.
C9_Witness ==
    /\ dialog = "matching"
    /\ Len(data[drill_cat]) = 11
    /\ Len(items) = 10

\* The positions sel are the n lowest-scored of category cat, ties going to
\* the earlier position.
Lowest(cat, sel, n) ==
    /\ Cardinality(sel) = n
    /\ \A i \in sel : \A j \in (1..Len(data[cat])) \ sel :
         /\ ScoreOf(data[cat][i]) <= ScoreOf(data[cat][j])
         /\ ScoreOf(data[cat][i]) = ScoreOf(data[cat][j]) => i < j

\* C10: in weak mode the working set holds, in some order, the min(k, S) items
\* that come first when the category is sorted by ascending score with ties in
\* the category's order.
C10_WeakTakesLowest ==
    [][/\ \A cat \in CategorySet : \A count \in 1..MaxCount :
            (Starts(cat) /\ start_practice(cat, "weak", count))
            => Lowest(cat, Range(items'), Min(count, Len(data[cat])))
       /\ \A cat \in CategorySet : \A rounds \in 1..MaxRounds :
            (Starts(cat) /\ start_matching(cat, "weak", rounds))
            => Lowest(cat, Range(items'), Min(rounds * 10, Len(data[cat])))]_vars

\* C10 witness: a working set that is the lowest part of its category, leaves
\* out an item that ties with one it holds, and is not in the order of the sort.
C10_Witness ==
    /\ dialog = "flashcard"
    /\ Len(items) >= 2
    /\ Len(items) < Len(data[drill_cat])
    /\ Lowest(drill_cat, Range(items), Len(items))
    /\ \E i \in Range(items) : \E j \in (1..Len(data[drill_cat])) \ Range(items) :
         ScoreOf(data[drill_cat][i]) = ScoreOf(data[drill_cat][j])
    /\ \E a \in 1..(Len(items) - 1) :
         ScoreOf(ItemAt(a)) > ScoreOf(ItemAt(a + 1))

\* The number of rounds of ten that n >= 1 items need: ceil(n / 10).
RoundsNeeded(n) == CHOOSE R \in 1..n : R * 10 >= n /\ (R - 1) * 10 < n

\* A round of the matching drill starts: the first one with the dialog, a
\* later one when the round counter changes.
RoundStarts ==
    /\ dialog' = "matching"
    /\ dialog = "none" \/ current_round' # current_round

MatchingAccepted == dialog = "matching" /\ dialog' # "matching" /\ result' = "accepted"

\* C11: a matching drill over n items has ceil(n / 10) rounds, numbered from 0:
\* a round that is not the last starts with 10 pairs, the last with
\* n - 10 * (ceil(n / 10) - 1); the buttons of a round are those of the next
\* such run of working-set positions, none of which was in the grid before;
\* the drill is accepted in round ceil(n / 10) - 1 with every item shown.
C11_RoundsOfTen ==
    [][/\ RoundStarts =>
            LET n == Len(items')
                R == RoundsNeeded(n)
                k == current_round'
                size == IF k < R - 1 THEN 10 ELSE n - 10 * (R - 1)
                chunk == (10 * k + 1)..(10 * k + size)
            IN /\ k \in 0..(R - 1)
               /\ dialog = "none" => k = 0
               /\ remaining_pairs' = size
               /\ \A type \in Types :
                    /\ {p \in 1..n : enabled'[type][p]} = chunk
                    /\ \A p \in chunk : style'[type][p] = "neutral"
                    /\ dialog = "matching" => \A p \in chunk : style[type][p] = "absent"
       /\ MatchingAccepted =>
            /\ current_round = RoundsNeeded(Len(items)) - 1
            /\ \A type \in Types : \A p \in 1..Len(items) : style[type][p] # "absent"]_vars

\* C11 witness: a working set of 15 items is in its second round, which
\* started with 5 pairs, none judged yet.
C11_Witness ==
    /\ dialog = "matching"
    /\ Len(items) = 15
    /\ current_round = 1
    /\ remaining_pairs = 5
    /\ \A p \in 1..10 : style.russian[p] = "correct"

\* The round counter of the running matching drill changes.
RoundChanges ==
    dialog = "matching" /\ dialog' = "matching" /\ current_round' # current_round

\* C12: the round counter changes, and the matching drill is accepted, only in
\* a click on the action button (next_round) taken while remaining_pairs is 0;
\* the counter then goes up by exactly 1, and the drill is accepted only from
\* the last round; the action button is shown only while remaining_pairs is 0.
C12_RoundsByUserAction ==
    [][/\ RoundChanges => /\ next_round
                          /\ action_btn
                          /\ remaining_pairs = 0
                          /\ current_round' = current_round + 1
       /\ MatchingAccepted => /\ next_round
                              /\ action_btn
                              /\ remaining_pairs = 0
                              /\ current_round = RoundsNeeded(Len(items)) - 1
       /\ (dialog' = "matching" /\ action_btn') => remaining_pairs' = 0
       /\ (dialog' = "matching" /\ remaining_pairs' # remaining_pairs
            /\ ~RoundStarts) => current_round' = current_round]_vars

\* C12 witness: the last of two rounds is complete and waits for the click on
\* the action button.
C12_Witness ==
    /\ dialog = "matching"
    /\ Len(items) = 11
    /\ current_round = 1
    /\ remaining_pairs = 0
    /\ action_btn

\* The cursor of column type, and the cursor of the other column.
CursorOf(type) == IF type = "russian" THEN selected_russian ELSE selected_english

OtherCursor(type) == IF type = "russian" THEN selected_english ELSE selected_russian

CursorOfAfter(type) == IF type = "russian" THEN selected_russian' ELSE selected_english'

OtherCursorAfter(type) == IF type = "russian" THEN selected_english' ELSE selected_russian'

\* The step judges no pairing: scores and remaining_pairs are what they were.
NoMatchCheck == data' = data /\ remaining_pairs' = remaining_pairs

\* C13 (as claimed): within a round, scores and remaining_pairs change only in
\* a click that leaves both cursors non-null; a click on the selected button
\* only clears its column's cursor; a click on another button of a column that
\* has a selection only moves that column's cursor; both leave the other
\* cursor, the scores and remaining_pairs as they were.
C13_NoCheckWithoutBothCursors ==
    [][/\ (dialog = "matching" /\ dialog' # "none" /\ ~RoundChanges /\ ~NoMatchCheck)
            => \E type \in Types : \E p \in 1..Len(items) :
                  LeavesBoth(type, p) /\ handle_click(type, p)
       /\ \A type \in Types : \A p \in 1..Len(items) :
            (CursorOf(type) # 0 /\ handle_click(type, p))
            => /\ CursorOfAfter(type) = (IF CursorOf(type) = p THEN 0 ELSE p)
               /\ OtherCursorAfter(type) = OtherCursor(type)
               /\ NoMatchCheck]_vars

\* What the EmptyCategory outcome leaves: the "No Items" box, no dialog, the
\* collection and the file as they were.
EmptyCategory ==
    /\ msg' = "No Items"
    /\ dialog' = "none"
    /\ items' = <<>>
    /\ data' = data
    /\ file' = file

\* C14: start_practice and start_matching on an empty category show the
\* "No Items" box, start no dialog, change nothing in the collection and write
\* nothing to the file.
C14_EmptyCategory ==
    [][/\ \A cat \in CategorySet : \A mode \in Modes : \A count \in 1..MaxCount :
            (dialog = "none" /\ data[cat] = <<>> /\ start_practice(cat, mode, count))
            => EmptyCategory
       /\ \A cat \in CategorySet : \A mode \in Modes : \A rounds \in 1..MaxRounds :
            (dialog = "none" /\ data[cat] = <<>> /\ start_matching(cat, mode, rounds))
            => EmptyCategory]_vars

\* C14 witness: a drill was asked for on an empty category of a collection
\* that holds items elsewhere and differs from what the file holds; the box is
\* shown and no dialog runs.
C14_Witness ==
    /\ msg = "No Items"
    /\ dialog = "none"
    /\ \E c \in CategorySet : data[c] # <<>>
    /\ \E c \in CategorySet : data[c] = <<>>
    /\ file # Dump(data)

\* A drill ends: exec() of its dialog returns to the start handler.
DrillEnds == dialog \in {"flashcard", "matching", "closing"} /\ dialog' = "none"

\* C15: when a drill ends, accepted or rejected, the collection keeps every
\* score as the drill left it, and if the save that follows succeeds the file
\* holds exactly that collection.
C15_DrillEndKeepsScores ==
    [][DrillEnds => /\ data' = data
                    /\ result' \in {"accepted", "rejected"}
                    /\ writable => file' = Dump(data)]_vars

\* C15 witness: a drill was abandoned after a judgment lowered a score to
\* MAX_SCORE - 2 (no item is added or loaded with that score); the collection
\* holds the lowered score and the file holds the collection.
C15_Witness ==
    /\ dialog = "none"
    /\ result = "rejected"
    /\ writable
    /\ file = Dump(data)
    /\ \E c \in CategorySet : \E i \in 1..Len(data[c]) :
         ScoreOf(data[c][i]) = MAX_SCORE - 2

\* The score of the item at position i of the drilled category goes down by
\* exactly 1 in this step.
LoweredByOne(i) ==
    ScoreOf(data'[drill_cat][i]) = ScoreOf(data[drill_cat][i]) - 1

\* C16: an incorrect judgment lowers the score by exactly 1 whatever the score
\* is (1, 0, negative, -MAX_SCORE and below): mark_unknown the item of the
\* card, a pairing judged wrong each of its two items.
C16_NoFloor ==
    [][/\ (dialog = "flashcard" /\ mark_unknown) => LoweredByOne(items[current_index + 1])
       /\ \A type \in Types : \A p \in 1..Len(items) :
            (/\ dialog = "matching"
             /\ LeavesBoth(type, p)
             /\ ~is_match(ItemAt(TermAfter(type, p)), ItemAt(DefinitionAfter(type, p)))
             /\ handle_click(type, p))
            => /\ LoweredByOne(items[TermAfter(type, p)])
               /\ LoweredByOne(items[DefinitionAfter(type, p)])]_vars

\* C16 witness: two wrong pairings in one drill have taken an item from
\* -MAX_SCORE to -MAX_SCORE - 2.
C16_Witness ==
    /\ dialog = "matching"
    /\ mistakes = FloorMistakes - 2
    /\ \E p \in 1..Len(items) : ScoreOf(ItemAt(p)) = -MAX_SCORE - 2

\* t is s without the spaces at its two ends.
IsTrimOf(t, s) ==
    \E i \in 1..(Len(s) + 1) : \E j \in (i - 1)..Len(s) :
        /\ t = SubSeq(s, i, j)
        /\ \A k \in 1..(i - 1) : s[k] = " "
        /\ \A k \in (j + 1)..Len(s) : s[k] = " "
        /\ t # <<>> => (t[1] # " " /\ t[Len(t)] # " ")

\* What each text the user may have typed is without the spaces at its ends.
TrimOf ==
    [s \in RussianInputs \cup EnglishInputs |->
        CHOOSE t \in {SubSeq(s, i, j) : i \in 1..(Len(s) + 1), j \in 0..Len(s)} :
            IsTrimOf(t, s)]

\* C17: add_entry with the term or the definition empty after trimming shows
\* the "Missing Info" box and leaves the collection and the file as they were;
\* otherwise it appends one item, the trimmed term and definition with score 0,
\* to the end of the selected category and changes nothing else in the
\* collection.
C17_AddEntry ==
    [][\A cat \in CategorySet : \A r \in RussianInputs : \A e \in EnglishInputs :
            (dialog = "none" /\ dialog' = "none" /\ add_entry(cat, r, e))
            => IF TrimOf[r] = <<>> \/ TrimOf[e] = <<>>
               THEN /\ msg' = "Missing Info"
                    /\ data' = data
                    /\ file' = file
               ELSE data' = [data EXCEPT ![cat] =
                               Append(@, [russian |-> TrimOf[r], english |-> TrimOf[e],
                                          score |-> 0])]]_vars

\* C17 witness: a category that held an item has got the item typed as " b "
\* and "x " behind it, trimmed, with score 0, and the file holds the collection.
C17_Witness ==
    /\ dialog = "none"
    /\ msg = "none"
    /\ file = Dump(data)
    /\ \E c \in CategorySet :
         /\ Len(data[c]) >= 2
         /\ data[c][Len(data[c])] = [russian |-> <<"b">>, english |-> <<"x">>, score |-> 0]

\* The list without its element of index row (counted from 0), the others in
\* their order.
Without(lst, row) == SubSeq(lst, 1, row) \o SubSeq(lst, row + 2, Len(lst))

ValidIndex(cat, row) == 0 <= row /\ row <= Len(data[cat]) - 1

\* C18 (as claimed): delete_entry with an index outside 0..len-1 reports an
\* error (a box is shown) and leaves the collection as it was; with a valid
\* index it removes the item of that index, keeps the others in their order and
\* leaves the other categories as they were.
C18_DeleteEntry ==
    [][\A cat \in CategorySet : \A row \in -1..(StoreItems + 1) :
            (dialog = "none" /\ dialog' = "none" /\ delete_entry(cat, row))
            => IF ValidIndex(cat, row)
               THEN data' = [data EXCEPT ![cat] = Without(@, row)]
               ELSE msg' # "none" /\ data' = data]_vars

\* File contents that are malformed or corrupt: invalid JSON, and valid JSON
\* that is no object mapping categories to lists of items.
Malformed(f) == f.kind \in {"garbage", "array", "scalar", "object of scalars"}

\* C19 (as claimed): for every file content the construction of the window
\* gets from load_data, without failing, a collection in which every configured
\* category is a key; for malformed or corrupt content that collection is the
\* empty default collection.
C19_LoadTotal ==
    [][construct => /\ dialog' = "none"
                    /\ CategorySet \subseteq DOMAIN data'
                    /\ Malformed(file) => data' = default_data]_vars

\* What a failed save leaves: the error box is shown, the file is as it was,
\* the collection is the one the handler gave to save_data, and the main window
\* is there for the next handler.
SaveFailed(d) == msg' = "Error" /\ file' = file /\ data' = d /\ dialog' = "none"

\* C20: when the file cannot be written, every handler that saves (the end of
\* a drill, add_entry with two non-empty texts, delete_entry with a valid index)
\* shows the error box, leaves the file untouched and the collection exactly as
\* it was given to save_data, and leaves the main window open, so that a later
\* handler can save again.
C20_SaveFailureSurfaced ==
    [][~writable =>
         /\ DrillEnds => SaveFailed(data)
         /\ (dialog = "none" /\ dialog' = "none") =>
              \A cat \in CategorySet :
                /\ \A r \in RussianInputs : \A e \in EnglishInputs :
                     (TrimOf[r] # <<>> /\ TrimOf[e] # <<>> /\ add_entry(cat, r, e))
                     => SaveFailed([data EXCEPT ![cat] =
                           Append(@, [russian |-> TrimOf[r], english |-> TrimOf[e],
                                      score |-> 0])])
                /\ \A row \in 0..(Len(data[cat]) - 1) :
                     delete_entry(cat, row)
                     => SaveFailed([data EXCEPT ![cat] = Without(@, row)])]_vars

\* C20 witness: with no file and no way to write one, a second add_entry has
\* attempted its save after the first one failed; both items are in the
\* collection, the error box is shown and there is still no file.
C20_Witness ==
    /\ ~writable
    /\ file.kind = "missing"
    /\ dialog = "none"
    /\ msg = "Error"
    /\ Len(data["all words"]) = 2

\* A matching round is on: the dialog is open on the buttons of current_round.
InRound == dialog = "matching"

\* C21 (as claimed): in every state of a matching round with remaining_pairs
\* > 0 some enabled term button and some enabled definition button of the round
\* would be judged a match, whatever the working set (two items of the same
\* term, definition and score included) and whatever pairings came before.
C21_RoundCompletable ==
    (InRound /\ remaining_pairs > 0)
    => \E r \in RoundPositions(current_round, Len(items)) :
         \E e \in RoundPositions(current_round, Len(items)) :
           /\ enabled.russian[r]
           /\ enabled.english[e]
           /\ is_match(ItemAt(r), ItemAt(e))

\* The buttons of the current round in column type that are enabled, and the
\* items of those that are disabled.
EnabledButtons(type) ==
    {p \in RoundPositions(current_round, Len(items)) : enabled[type][p]}

DisabledItems(type) ==
    {items[p] : p \in RoundPositions(current_round, Len(items)) \ EnabledButtons(type)}

\* remaining_pairs is the number of enabled buttons of either column, is not
\* negative, and the action button is shown exactly when it is 0.
PairsCounted ==
    InRound => /\ remaining_pairs = Cardinality(EnabledButtons("russian"))
               /\ remaining_pairs = Cardinality(EnabledButtons("english"))
               /\ remaining_pairs >= 0
               /\ action_btn <=> remaining_pairs = 0

\* C22 (as claimed): in every state of a matching round remaining_pairs is the
\* number of enabled term buttons and the number of enabled definition buttons,
\* the disabled term buttons and the disabled definition buttons are those of
\* the same items, remaining_pairs is not negative and the action button is
\* shown exactly when remaining_pairs = 0.
C22_PairsAndButtons ==
    /\ PairsCounted
    /\ InRound => DisabledItems("russian") = DisabledItems("english")

\* A click has been handled: handle_click returned without entering
\* processEvents, or a suspended validate_match ran to its end.
ClickHandled ==
    /\ dialog = "matching"
    /\ dialog' = "matching"
    /\ \/ resume_validate_match
       \/ /\ pe_stack' = pe_stack
          /\ \E type \in Types : \E p \in 1..Len(items) : handle_click(type, p)

\* A cursor that is set is an enabled button of the current round.
CursorsInRound ==
    InRound => /\ selected_russian # 0 => Clickable("russian", selected_russian)
               /\ selected_english # 0 => Clickable("english", selected_english)

\* C23: in the matching drill, after a click has been handled at most one of
\* selected_russian and selected_english is set; a cursor that is set is an
\* enabled button of the current round; and when a round starts both cursors
\* are None.
C23_Cursors ==
    /\ []CursorsInRound
    /\ [][/\ ClickHandled => (selected_russian' = 0 \/ selected_english' = 0)
          /\ RoundStarts => (selected_russian' = 0 /\ selected_english' = 0)]_vars

\* C23 witness: the second round was started from inside the processEvents of
\* a wrong pairing of the first round, whose validate_match is still suspended,
\* and the user has selected a term of the second round.
C23_Witness ==
    /\ dialog = "matching"
    /\ current_round = 1
    /\ pe_stack # <<>>
    /\ selected_russian # 0
    /\ selected_english = 0

\* No reset callback is pending and no validate_match is on its way to
\* scheduling one.
NoResetPending == timers = <<>> /\ pe_stack = <<>>

\* C24 (as claimed): in the matching drill, whenever no reset callback is
\* pending, a button of the round has the selected styling exactly if it is
\* selected_russian or selected_english, and no enabled button that is not
\* selected is left in the wrong styling.
C24_StylingFollowsCursors ==
    (InRound /\ NoResetPending)
    => \A type \in Types : \A p \in RoundPositions(current_round, Len(items)) :
         /\ style[type][p] = "selected" <=> CursorOf(type) = p
         /\ (enabled[type][p] /\ CursorOf(type) # p) => style[type][p] # "wrong"

\* A drill is running (its dialog is open, or closed below suspended frames).
DrillRuns == dialog \in {"flashcard", "matching", "closing"}

\* C25: from the start of a flashcard or matching drill to its end the working
\* set stays what the start made it, and nothing of the collection changes but
\* the scores of items of the working set: the categories, the length and order
\* of every category, every term and definition, and every item outside the
\* working set, those of other categories included, stay as they were.
C25_DrillChangesOnlyScores ==
    [][/\ DrillRuns => /\ OnlyScoresOf(Range(items))
                       /\ dialog' # "none" => (items' = items /\ drill_cat' = drill_cat)
       /\ (dialog = "none" /\ dialog' # "none") => data' = data]_vars

\* C25 witness: a matching drill of one round on a category of eleven items
\* at MAX_SCORE - 1 was accepted after one wrong pairing: eight items are at
\* MAX_SCORE, the two paired wrongly and the one left out at MAX_SCORE - 1,
\* and the item of the other category is what it was.
C25_Witness ==
    /\ dialog = "none"
    /\ result = "accepted"
    /\ mistakes = 0
    /\ Len(data["all words"]) = ROUND_ITEMS + 1
    /\ Cardinality({i \in 1..Len(data["all words"]) :
                       ScoreOf(data["all words"][i]) = MAX_SCORE}) = ROUND_ITEMS - 2
    /\ ScoreOf(data["all words"][ROUND_ITEMS + 1]) = MAX_SCORE - 1
    /\ data["all phrases"] = <<Bystander>>

\* The flashcard drill is Finished: accept() closed the dialog.
Finished == dialog = "none" /\ result = "accepted"

\* C26: in a flashcard drill over N >= 1 items current_index stays within
\* 0..N-1 and changes only in next_card on a Revealed card that is not the
\* last, by +1; and under weak fairness of the judge and advance clicks, with
\* the dialog never closed by the user, a running drill leads to Finished.
C26_FlashcardTerminates ==
    /\ [](dialog = "flashcard" => (Len(items) >= 1 /\ current_index \in 0..(Len(items) - 1)))
    /\ [][(dialog = "flashcard" /\ dialog' = "flashcard" /\ current_index' # current_index)
            => /\ next_card
               /\ revealed
               /\ current_index < Len(items) - 1
               /\ current_index' = current_index + 1]_vars
    /\ (dialog = "flashcard") ~> Finished

\* C26 witness: in a session that cannot write its file, which still holds the
\* two items at MAX_SCORE - 1, a drill over both cards is Finished with both
\* judged known.
C26_Witness ==
    /\ Finished
    /\ ~writable
    /\ Len(data["all words"]) = 2
    /\ \A i \in 1..2 : /\ ScoreOf(file.doc["all words"][i]) = MAX_SCORE - 1
                        /\ ScoreOf(data["all words"][i]) = MAX_SCORE

====
